---- MODULE Spec2Model ----
(***************************************************************************)
(* Pipeline-parallel schedule solver (simulator/simulator.py, painter.py,  *)
(* main.py).  A run takes a configuration, builds integer constraints over *)
(* the start offsets of the forward and backward blocks, asks the solver   *)
(* for an assignment that minimises max_start_offset, prints the outcome   *)
(* and hands the offsets to the painter.                                   *)
(*                                                                         *)
(* The solver's assertion store is modelled by what it denotes: the set of *)
(* assignments of the offset variables that satisfy every assertion added  *)
(* so far.  Offsets are searched up to the last start of the back-to-back  *)
(* schedule of the configuration (Horizon), which is at most MaxOffset.    *)
(***************************************************************************)
EXTENDS Integers, FiniteSets, Sequences, TLC

\* ------------------------------------------------------------------ bounds
MaxP == 3
MaxM == 2
MaxDuration == 2
MaxCap == 2
MaxOffset == 7
\* malformed configurations are drawn over shapes of at most this many
\* (stage, microbatch) pairs
MaxBadPairs == 2

\* --------------------------------------------------------- program constants
pixel_base == 10

\* ------------------------------------------------------------ configuration
Strategies == {"strict", "double_interleaving", "full_interleaving"}

StrategyNames == Strategies \cup {"zero_bubble"}

\* a duration as the config dict holds it: a Python value with its type
IntDurations(lo) == {[type |-> "int", val |-> d] : d \in lo..MaxDuration}

DurationValues == IntDurations(0) \cup {[type |-> "float", val |-> 1]}

\* max_activation_times: a list indexed from 0
CapArrays(n) == [0..(n - 1) -> 0..MaxCap]

\* configurations with every field as the data model asks, but capacities
\* from 0
WellFormedConfigs ==
    UNION {[pp_size : {P},
            num_microbatches : 1..MaxM,
            forward_execution_time : IntDurations(1),
            backward_execution_time : IntDurations(1),
            sequential_order_constraint_strategy : Strategies,
            max_activation_times : CapArrays(P)] : P \in 1..MaxP}

\* configurations of small shapes with any field possibly bad: an unknown
\* strategy, a float or zero duration, a capacity list one short or one long
SmallConfigs ==
    UNION {[pp_size : {P},
            num_microbatches : {M \in 1..MaxM : P * M <= MaxBadPairs},
            forward_execution_time : DurationValues,
            backward_execution_time : DurationValues,
            sequential_order_constraint_strategy : StrategyNames,
            max_activation_times :
                CapArrays(P - 1) \cup CapArrays(P) \cup CapArrays(P + 1)]
           : P \in 1..MaxP}

Configs == WellFormedConfigs \cup SmallConfigs

Stages(cfg) == 0..(cfg.pp_size - 1)
Microbatches(cfg) == 0..(cfg.num_microbatches - 1)
Df(cfg) == cfg.forward_execution_time.val
Db(cfg) == cfg.backward_execution_time.val
Cap(cfg) == cfg.max_activation_times

\* the configuration errors the data model names: strategy, durations, length
WellFormed(cfg) ==
    /\ cfg.sequential_order_constraint_strategy \in Strategies
    /\ cfg.forward_execution_time.type = "int" /\ Df(cfg) > 0
    /\ cfg.backward_execution_time.type = "int" /\ Db(cfg) > 0
    /\ DOMAIN Cap(cfg) = Stages(cfg)

\* last start offset of the schedule that runs the microbatches back to back
Horizon(cfg) ==
    cfg.pp_size * cfg.num_microbatches * (Df(cfg) + Db(cfg)) - Db(cfg)

Offsets(cfg) == 0..Horizon(cfg)

Drawn(cfg) == Horizon(cfg) <= MaxOffset

\* the offsets of one microbatch, by stage
Col(X, mb) == [i \in DOMAIN X |-> X[i][mb]]

Max(S) == CHOOSE x \in S : \A y \in S : y <= x
Min(S) == CHOOSE x \in S : \A y \in S : x <= y

\* ------------------------------------------- sequential order: strict
\* F, B: the forward and backward offsets of one microbatch, by stage
strict_forward(cfg, F) ==
    \A i \in 1..(cfg.pp_size - 1) : F[i] >= F[i - 1] + Df(cfg)

strict_backward(cfg, B) ==
    \A i \in 1..(cfg.pp_size - 1) : B[i - 1] >= B[i] + Db(cfg)

strict_connection(cfg, F, B) ==
    B[cfg.pp_size - 1] >= F[cfg.pp_size - 1] + Df(cfg)

_sequential_order_constraint_strict(cfg, a) ==
    \A mb \in Microbatches(cfg) :
        /\ strict_forward(cfg, Col(a.f, mb))
        /\ strict_backward(cfg, Col(a.b, mb))
        /\ strict_connection(cfg, Col(a.f, mb), Col(a.b, mb))

\* ------------------------------------- sequential order: double interleaving
down_forward(cfg, F) ==
    \A i \in 1..(cfg.pp_size - 1) : F[i] >= F[i - 1] + Df(cfg)

down_backward(cfg, B) ==
    \A i \in 1..(cfg.pp_size - 1) : B[i - 1] >= B[i] + Db(cfg)

down_connection(cfg, F, B) ==
    B[cfg.pp_size - 1] >= F[cfg.pp_size - 1] + Df(cfg)

down_case(cfg, F, B) ==
    down_forward(cfg, F) /\ down_backward(cfg, B) /\ down_connection(cfg, F, B)

\* mutant: the up forward list copied from the down case
up_forward_as_down(cfg, F) ==
    \A i \in 1..(cfg.pp_size - 1) : F[i] >= F[i - 1] + Df(cfg)

up_forward(cfg, F) ==
    \A i \in 1..(cfg.pp_size - 1) : F[i - 1] >= F[i] + Df(cfg)

\* mutant: the up backward list copied from the down case
up_backward_as_down(cfg, B) ==
    \A i \in 1..(cfg.pp_size - 1) : B[i - 1] >= B[i] + Db(cfg)

up_backward(cfg, B) ==
    \A i \in 1..(cfg.pp_size - 1) : B[i] >= B[i - 1] + Db(cfg)

\* mutant: the up connection left at the last stage
up_connection_at_last_stage(cfg, F, B) ==
    B[cfg.pp_size - 1] >= F[cfg.pp_size - 1] + Df(cfg)

up_connection(cfg, F, B) == B[0] >= F[0] + Df(cfg)

up_case(cfg, F, B) ==
    up_forward(cfg, F) /\ up_backward(cfg, B) /\ up_connection(cfg, F, B)

_sequential_order_constraint_double_interleaving(cfg, a) ==
    \A mb \in Microbatches(cfg) :
        \/ down_case(cfg, Col(a.f, mb), Col(a.b, mb))
        \/ up_case(cfg, Col(a.f, mb), Col(a.b, mb))

\* --------------------------------------- sequential order: full interleaving
\* itertools.permutations(range(pp_size)): tuples perm[0..P-1]
PermutationTable ==
    [n \in 1..MaxP |->
        {p \in [0..(n - 1) -> 0..(n - 1)] :
            \A i, j \in 0..(n - 1) : p[i] = p[j] => i = j}]

permutations(n) == PermutationTable[n]

perm_forward(cfg, perm, F) ==
    \A i \in 0..(cfg.pp_size - 2) : F[perm[i + 1]] >= F[perm[i]] + Df(cfg)

perm_backward(cfg, perm, B) ==
    \A i \in 1..(cfg.pp_size - 1) : B[perm[i - 1]] >= B[perm[i]] + Db(cfg)

perm_connection(cfg, perm, F, B) ==
    B[perm[cfg.pp_size - 1]] >= F[perm[cfg.pp_size - 1]] + Df(cfg)

perm_case(cfg, perm, F, B) ==
    /\ perm_forward(cfg, perm, F)
    /\ perm_backward(cfg, perm, B)
    /\ perm_connection(cfg, perm, F, B)

_sequential_order_constraint_full_interleaving(cfg, a) ==
    \A mb \in Microbatches(cfg) :
        \E perm \in permutations(cfg.pp_size) :
            perm_case(cfg, perm, Col(a.f, mb), Col(a.b, mb))

\* ------------------------------------------------ no overlap within a stage
\* _pp_vars = forward_offsets[pp] + backward_offsets[pp], indexed 0..2M-1
_pp_vars(cfg, a, pp) ==
    [k \in 0..(2 * cfg.num_microbatches - 1) |->
        IF k < cfg.num_microbatches
            THEN a.f[pp][k]
            ELSE a.b[pp][k - cfg.num_microbatches]]

\* mutant: % for //
_length_modulo(cfg, k) ==
    IF k % cfg.num_microbatches = 0 THEN Df(cfg) ELSE Db(cfg)

_length(cfg, k) ==
    IF k \div cfg.num_microbatches = 0 THEN Df(cfg) ELSE Db(cfg)

_serial_computation_within_pipeline_constraint(cfg, a) ==
    \A pp \in Stages(cfg) :
        LET v == _pp_vars(cfg, a, pp) IN
        \A i \in DOMAIN v :
            \A j \in (i + 1)..(2 * cfg.num_microbatches - 1) :
                \/ v[j] >= v[i] + _length(cfg, i)
                \/ v[j] + _length(cfg, j) <= v[i]

\* --------------------------------------------------- activation accumulation
\* mutant: the count starts at 0, not at 1 for the microbatch itself
RECURSIVE _actvaition_count_from_zero(_, _, _, _, _)
_actvaition_count_from_zero(cfg, a, pp, mb, from) ==
    IF from >= cfg.num_microbatches
        THEN 0
        ELSE (IF from = mb
                THEN 0
                ELSE IF /\ a.b[pp][from] > a.b[pp][mb]
                        /\ a.f[pp][from] < a.b[pp][mb]
                     THEN 1
                     ELSE 0)
             + _actvaition_count_from_zero(cfg, a, pp, mb, from + 1)

\* mutant: the other microbatch's forward compared the wrong way round
RECURSIVE _actvaition_count_forward_after(_, _, _, _, _)
_actvaition_count_forward_after(cfg, a, pp, mb, from) ==
    IF from >= cfg.num_microbatches
        THEN 1
        ELSE (IF from = mb
                THEN 0
                ELSE IF /\ a.b[pp][from] > a.b[pp][mb]
                        /\ a.f[pp][from] > a.b[pp][mb]
                     THEN 1
                     ELSE 0)
             + _actvaition_count_forward_after(cfg, a, pp, mb, from + 1)

RECURSIVE _actvaition_count(_, _, _, _, _)
\* 1 plus one z3.If per other microbatch, summed over other_mb = from..M-1
_actvaition_count(cfg, a, pp, mb, from) ==
    IF from >= cfg.num_microbatches
        THEN 1
        ELSE (IF from = mb
                THEN 0
                ELSE IF /\ a.b[pp][from] > a.b[pp][mb]
                        /\ a.f[pp][from] < a.b[pp][mb]
                     THEN 1
                     ELSE 0)
             + _actvaition_count(cfg, a, pp, mb, from + 1)

\* mutant: < for <=
_pipeline_activation_accumulation_constraint_strict_less(cfg, a) ==
    \A pp \in Stages(cfg) :
        \A mb \in Microbatches(cfg) :
            _actvaition_count(cfg, a, pp, mb, 0) < Cap(cfg)[pp]

_pipeline_activation_accumulation_constraint(cfg, a) ==
    \A pp \in Stages(cfg) :
        \A mb \in Microbatches(cfg) :
            _actvaition_count(cfg, a, pp, mb, 0) <= Cap(cfg)[pp]

\* ------------------------------------------------------- _build_constraints
_offsets_nonnegative(cfg, a) ==
    \A i \in Stages(cfg) :
        \A mb \in Microbatches(cfg) : a.f[i][mb] >= 0 /\ a.b[i][mb] >= 0

\* the strategy dispatch of _build_constraints
_sequential_order_constraint(cfg, a) ==
    CASE cfg.sequential_order_constraint_strategy = "strict" ->
            _sequential_order_constraint_strict(cfg, a)
      [] cfg.sequential_order_constraint_strategy = "double_interleaving" ->
            _sequential_order_constraint_double_interleaving(cfg, a)
      [] cfg.sequential_order_constraint_strategy = "full_interleaving" ->
            _sequential_order_constraint_full_interleaving(cfg, a)

_build_constraints(cfg, a) ==
    /\ _offsets_nonnegative(cfg, a)
    /\ _sequential_order_constraint(cfg, a)
    /\ _serial_computation_within_pipeline_constraint(cfg, a)
    /\ _pipeline_activation_accumulation_constraint(cfg, a)

\* ------------------------------------------------------- Simulator.__init__
\* the three assertions
InitAsserts(cfg) ==
    /\ cfg.forward_execution_time.type = "int"
    /\ cfg.backward_execution_time.type = "int"
    /\ cfg.sequential_order_constraint_strategy \in Strategies

\* ------------------------------------------------ _build_optimize_objectives
\* max_var >= var for every backward offset of every stage
\* mutant: the forward offsets bounded instead of the backward ones
_max_var_bounds_forward(cfg, a, max_var) ==
    \A pp \in Stages(cfg) :
        \A mb \in Microbatches(cfg) : max_var >= a.f[pp][mb]

_max_var_bounds(cfg, a, max_var) ==
    \A pp \in Stages(cfg) :
        \A mb \in Microbatches(cfg) : max_var >= a.b[pp][mb]

\* ------------------------------------------------- the solver's model search
\* the columns (offsets of one microbatch) a case of the ordering admits
StageOffsets(cfg) == [Stages(cfg) -> Offsets(cfg)]

StrictColumns(cfg) ==
    LET FS == {F \in StageOffsets(cfg) : strict_forward(cfg, F)}
        BS == {B \in StageOffsets(cfg) : strict_backward(cfg, B)}
    IN  {c \in [f : FS, b : BS] : strict_connection(cfg, c.f, c.b)}

DownColumns(cfg) ==
    LET FS == {F \in StageOffsets(cfg) : down_forward(cfg, F)}
        BS == {B \in StageOffsets(cfg) : down_backward(cfg, B)}
    IN  {c \in [f : FS, b : BS] : down_connection(cfg, c.f, c.b)}

UpColumns(cfg) ==
    LET FS == {F \in StageOffsets(cfg) : up_forward(cfg, F)}
        BS == {B \in StageOffsets(cfg) : up_backward(cfg, B)}
    IN  {c \in [f : FS, b : BS] : up_connection(cfg, c.f, c.b)}

PermColumns(cfg, perm) ==
    LET FS == {F \in StageOffsets(cfg) : perm_forward(cfg, perm, F)}
        BS == {B \in StageOffsets(cfg) : perm_backward(cfg, perm, B)}
    IN  {c \in [f : FS, b : BS] : perm_connection(cfg, perm, c.f, c.b)}

SearchColumns(cfg) ==
    CASE cfg.sequential_order_constraint_strategy = "strict" ->
            StrictColumns(cfg)
      [] cfg.sequential_order_constraint_strategy = "double_interleaving" ->
            DownColumns(cfg) \cup UpColumns(cfg)
      [] cfg.sequential_order_constraint_strategy = "full_interleaving" ->
            UNION {PermColumns(cfg, perm) : perm \in permutations(cfg.pp_size)}

\* _forward_offsets[i][mb], _backward_offsets[i][mb] from the columns
Assign(cfg, cols) ==
    [f |-> [i \in Stages(cfg) |-> [mb \in Microbatches(cfg) |-> cols[mb].f[i]]],
     b |-> [i \in Stages(cfg) |-> [mb \in Microbatches(cfg) |-> cols[mb].b[i]]]]

\* what the assertions added before the capacity constraint read of a config
Shape(cfg) ==
    [pp_size |-> cfg.pp_size,
     num_microbatches |-> cfg.num_microbatches,
     forward_execution_time |-> cfg.forward_execution_time,
     backward_execution_time |-> cfg.backward_execution_time,
     sequential_order_constraint_strategy |->
        cfg.sequential_order_constraint_strategy]

\* the assignments satisfying the assertions that do not read
\* max_activation_times: offsets >= 0, the ordering, no overlap
OrderedSerial(cfg) ==
    {a \in {Assign(cfg, cols) :
                cols \in [Microbatches(cfg) -> SearchColumns(cfg)]} :
        /\ _serial_computation_within_pipeline_constraint(cfg, a)
        /\ _offsets_nonnegative(cfg, a)
        /\ _sequential_order_constraint(cfg, a)}

\* OrderedSerial of every shape a run can build, computed once
SerialTable ==
    [sh \in {Shape(cfg) : cfg \in {c \in Configs : Drawn(c) /\ InitAsserts(c)}}
        |-> OrderedSerial(sh)]

\* the assignments that satisfy every assertion of _build_constraints
Models(cfg) ==
    {a \in SerialTable[Shape(cfg)] :
        _pipeline_activation_accumulation_constraint(cfg, a)}

\* the least value max_start_offset can take beside the offsets a
LeastMaxVar(cfg, a) == Min({mv \in Offsets(cfg) : _max_var_bounds(cfg, a, mv)})

\* the models of solver.check() with max_start_offset minimised
OptimalModels(cfg, S) ==
    LET best == Min({LeastMaxVar(cfg, a) : a \in S})
    IN  {[offsets |-> a, max_start_offset |-> best] :
            a \in {x \in S : LeastMaxVar(cfg, x) = best}}

\* ------------------------------------------------------------------ painter
OffsetValues(cfg, a) ==
    {a.f[i][mb] : i \in Stages(cfg), mb \in Microbatches(cfg)}
        \cup {a.b[i][mb] : i \in Stages(cfg), mb \in Microbatches(cfg)}

\* the MinExecutionTime label of SchedulingPainter.draw
MinExecutionTime(cfg, a) ==
    LET data == {v * pixel_base : v \in OffsetValues(cfg, a)}
        _backward_length == Db(cfg) * pixel_base
    IN  (Max(data) + _backward_length) \div pixel_base

\* --------------------------------------------------------------------- main
\* the config of main()
main_config ==
    [pp_size |-> 4,
     num_microbatches |-> 6,
     forward_execution_time |-> [type |-> "int", val |-> 2],
     backward_execution_time |-> [type |-> "int", val |-> 3],
     sequential_order_constraint_strategy |-> "strict",
     max_activation_times |-> [i \in 0..3 |-> 4 - i]]

\* -------------------------------------------------------------------- state
VARIABLES
    pc,               \* where the run is
    config,           \* the config dict given to Simulator
    offsets_created,  \* the z3.Int offset variables exist
    solver,           \* the assertion store: the assignments satisfying it
    objective,        \* max_start_offset is declared and minimised
    check_result,     \* what solver.check() returned
    z3model,          \* solver.model(), when there is one
    printed,          \* the "Result: ..." line
    results,          \* the dict handed to the painter
    label             \* the painter's MinExecutionTime text

vars == <<pc, config, offsets_created, solver, objective, check_result,
          z3model, printed, results, label>>

Init ==
    /\ config \in {cfg \in Configs : Drawn(cfg)}
    /\ pc = "main"
    /\ offsets_created = FALSE
    /\ solver = {}
    /\ objective = FALSE
    /\ check_result = "none"
    /\ z3model = {}
    /\ printed = "none"
    /\ results = {}
    /\ label = {}

Construct ==
    /\ pc = "main"
    /\ pc' = IF InitAsserts(config) THEN "constructed" ELSE "AssertionError"
    /\ UNCHANGED <<config, offsets_created, solver, objective, check_result,
                   z3model, printed, results, label>>

\* max_activation_times[pp] raises IndexError when the list is too short
CapIndexError(cfg) == \E pp \in Stages(cfg) : pp \notin DOMAIN Cap(cfg)

BuildConstraints ==
    /\ pc = "constructed"
    /\ offsets_created' = TRUE
    /\ IF CapIndexError(config)
          THEN pc' = "IndexError" /\ solver' = {}
          ELSE pc' = "constraints" /\ solver' = Models(config)
    /\ UNCHANGED <<config, objective, check_result, z3model, printed,
                   results, label>>

BuildOptimizeObjectives ==
    /\ pc = "constraints"
    /\ objective' = TRUE
    /\ pc' = "objective"
    /\ UNCHANGED <<config, offsets_created, solver, check_result, z3model,
                   printed, results, label>>

\* solver.check(): sat with a model, unsat, or unknown when the solver gives up
Check ==
    /\ pc = "objective"
    /\ pc' = "checked"
    /\ \/ /\ solver # {}
          /\ check_result' = "sat"
          /\ \E m \in OptimalModels(config, solver) : z3model' = {m}
       \/ /\ solver = {}
          /\ check_result' = "unsat"
          /\ z3model' = {}
       \/ /\ check_result' = "unknown"
          /\ z3model' = {}
    /\ UNCHANGED <<config, offsets_created, solver, objective, printed,
                   results, label>>

\* the sat branch of run: print, read the model, drop max_start_offset
ReportSat ==
    /\ pc = "checked"
    /\ check_result = "sat"
    /\ printed' = "Result: SAT"
    /\ results' = {m.offsets : m \in z3model}
    /\ pc' = "sat"
    /\ UNCHANGED <<config, offsets_created, solver, objective, check_result,
                   z3model, label>>

\* the else branch of run
ReportUnsat ==
    /\ pc = "checked"
    /\ check_result # "sat"
    /\ printed' = "Result: UNSAT"
    /\ pc' = "done"
    /\ UNCHANGED <<config, offsets_created, solver, objective, check_result,
                   z3model, results, label>>

Draw ==
    /\ pc = "sat"
    /\ label' = {MinExecutionTime(config, a) : a \in results}
    /\ pc' = "drawn"
    /\ UNCHANGED <<config, offsets_created, solver, objective, check_result,
                   z3model, printed, results>>

Next ==
    \/ Construct
    \/ BuildConstraints
    \/ BuildOptimizeObjectives
    \/ Check
    \/ ReportSat
    \/ ReportUnsat
    \/ Draw

Spec == Init /\ [][Next]_vars

\* ===================================================================== claims
\* helpers of the claims: blocks, the instants a block occupies, the makespan
Blocks(cfg) == {"forward", "backward"} \X Microbatches(cfg)

Start(a, s, blk) == IF blk[1] = "forward" THEN a.f[s][blk[2]] ELSE a.b[s][blk[2]]

Duration(cfg, blk) == IF blk[1] = "forward" THEN Df(cfg) ELSE Db(cfg)

\* the half-open interval [start, start + duration) of a block, as instants
Busy(cfg, a, s, blk) ==
    Start(a, s, blk)..(Start(a, s, blk) + Duration(cfg, blk) - 1)

Finish(cfg, a, s, blk) == Start(a, s, blk) + Duration(cfg, blk)

Makespan(cfg, a) ==
    Max({Finish(cfg, a, s, blk) : s \in Stages(cfg), blk \in Blocks(cfg)})

LastBackwardStart(cfg, a) ==
    Max({a.b[s][mb] : s \in Stages(cfg), mb \in Microbatches(cfg)})

PositiveDurations(cfg) == Df(cfg) > 0 /\ Db(cfg) > 0

\* the activation count of (s, mb) recomputed from the offsets alone
Straddlers(cfg, a, s, mb) ==
    {other \in Microbatches(cfg) \ {mb} :
        a.b[s][other] > a.b[s][mb] /\ a.f[s][other] < a.b[s][mb]}

\* the microbatches holding an activation on stage s at instant t
Live(cfg, a, s, t) ==
    {mb \in Microbatches(cfg) : a.f[s][mb] <= t /\ t <= a.b[s][mb]}

\* stage orders: tuples pi[1..P] of distinct stages
StageOrders(cfg) ==
    {pi \in [1..cfg.pp_size -> Stages(cfg)] :
        \A i, j \in 1..cfg.pp_size : pi[i] = pi[j] => i = j}

Downward(cfg) == [k \in 1..cfg.pp_size |-> k - 1]
Upward(cfg) == [k \in 1..cfg.pp_size |-> cfg.pp_size - k]

AllowedOrders(cfg) ==
    CASE cfg.sequential_order_constraint_strategy = "strict" -> {Downward(cfg)}
      [] cfg.sequential_order_constraint_strategy = "double_interleaving" ->
            {Downward(cfg), Upward(cfg)}
      [] cfg.sequential_order_constraint_strategy = "full_interleaving" ->
            StageOrders(cfg)

\* microbatch mb runs forward along pi, backward along pi reversed, and turns
\* round at pi's last stage
FollowsOrder(cfg, a, mb, pi) ==
    /\ \A k \in 2..cfg.pp_size : a.f[pi[k]][mb] >= a.f[pi[k - 1]][mb] + Df(cfg)
    /\ \A k \in 1..(cfg.pp_size - 1) :
            a.b[pi[k]][mb] >= a.b[pi[k + 1]][mb] + Db(cfg)
    /\ a.b[pi[cfg.pp_size]][mb] >= a.f[pi[cfg.pp_size]][mb] + Df(cfg)

\* C1: in every assignment satisfying the built constraints, with positive
\* durations, no two distinct blocks of a stage occupy a common instant: the
\* intervals [start, start + Df) of forward blocks and [start, start + Db) of
\* backward blocks are pairwise disjoint.
C1_NoOverlapWithinStage ==
    (pc = "constraints" /\ PositiveDurations(config)) =>
        \A a \in solver :
            \A s \in Stages(config) :
                \A b1, b2 \in Blocks(config) :
                    b1 # b2 =>
                        Busy(config, a, s, b1) \cap Busy(config, a, s, b2) = {}

\* a backward block of one microbatch ends exactly where a forward block of
\* another starts, with Df # Db
C1_Witness ==
    /\ pc = "constraints"
    /\ PositiveDurations(config)
    /\ Df(config) # Db(config)
    /\ \E a \in solver :
        \E s \in Stages(config) :
            \E m1, m2 \in Microbatches(config) :
                m1 # m2 /\ a.b[s][m2] + Db(config) = a.f[s][m1]

\* C2: in every produced schedule, for every stage and microbatch, one plus
\* the number of other microbatches whose backward starts later and whose
\* forward starts earlier than this microbatch's backward start is at most
\* the stage's capacity.
C2_ActivationWithinCapacity ==
    \A a \in results :
        \A s \in Stages(config) :
            \A mb \in Microbatches(config) :
                1 + Cardinality(Straddlers(config, a, s, mb)) <= Cap(config)[s]

\* a produced schedule where a stage holds two activations, its capacity
C2_Witness ==
    /\ pc = "sat"
    /\ \E a \in results :
        \E s \in Stages(config) :
            \E mb \in Microbatches(config) :
                /\ Cardinality(Straddlers(config, a, s, mb)) = 1
                /\ Cap(config)[s] = 2

\* C3: in every produced schedule every microbatch follows a stage order the
\* strategy allows (strict: 0..P-1; double interleaving: 0..P-1 or its
\* reverse; full interleaving: any permutation): forward starts are Df apart
\* along the order, backward starts Db apart against it, and the backward at
\* the order's last stage starts at least Df after the forward there.
C3_OrderingHolds ==
    \A a \in results :
        \A mb \in Microbatches(config) :
            \E pi \in AllowedOrders(config) : FollowsOrder(config, a, mb, pi)

\* a produced full-interleaving schedule whose microbatch follows neither
\* 0..P-1 nor its reverse
C3_Witness ==
    /\ pc = "sat"
    /\ config.sequential_order_constraint_strategy = "full_interleaving"
    /\ \E a \in results :
        \E mb \in Microbatches(config) :
            /\ ~FollowsOrder(config, a, mb, Downward(config))
            /\ ~FollowsOrder(config, a, mb, Upward(config))

\* the painter's figure, the makespan and the minimised variable
MakespanMinimisers(cfg, S) ==
    LET best == Min({Makespan(cfg, a) : a \in S})
    IN  {a \in S : Makespan(cfg, a) = best}

\* C4: minimising max_start_offset minimises the makespan over all blocks:
\* in every feasible schedule the last block to finish is a backward block,
\* so the makespan is the largest backward start plus Db; the schedules the
\* solver may return are exactly those of least makespan, and the painter's
\* MinExecutionTime is that makespan.
C4_MinimisesMakespan ==
    /\ pc = "constraints" =>
        /\ \A a \in solver :
            Makespan(config, a) = LastBackwardStart(config, a) + Db(config)
        /\ solver # {} =>
            {m.offsets : m \in OptimalModels(config, solver)}
                = MakespanMinimisers(config, solver)
    /\ pc = "drawn" =>
        \A a \in results :
            /\ label = {Makespan(config, a)}
            /\ \A m \in z3model :
                Makespan(config, a) = m.max_start_offset + Db(config)
            /\ \A other \in solver :
                Makespan(config, a) <= Makespan(config, other)

\* a drawn optimal schedule of several stages and microbatches, beside a
\* feasible schedule of larger makespan
C4_Witness ==
    /\ pc = "drawn"
    /\ config.pp_size >= 2 /\ config.num_microbatches >= 2
    /\ \E a \in results :
        /\ label = {Makespan(config, a)}
        /\ \E other \in solver : Makespan(config, other) > Makespan(config, a)

\* the schedule that runs the microbatches one after the other, each through
\* stages 0..P-1 forward and back
SerialSchedule(cfg) ==
    LET span == cfg.pp_size * (Df(cfg) + Db(cfg))
    IN  [f |-> [i \in Stages(cfg) |-> [mb \in Microbatches(cfg) |->
                    mb * span + i * Df(cfg)]],
         b |-> [i \in Stages(cfg) |-> [mb \in Microbatches(cfg) |->
                    mb * span + cfg.pp_size * Df(cfg)
                        + (cfg.pp_size - 1 - i) * Db(cfg)]]]

MainConfigSatisfiable == _build_constraints(main_config, SerialSchedule(main_config))

AllCapacitiesPositive(cfg) == \A s \in Stages(cfg) : Cap(cfg)[s] >= 1

Complete(cfg, a) ==
    /\ DOMAIN a.f = Stages(cfg) /\ DOMAIN a.b = Stages(cfg)
    /\ \A s \in Stages(cfg) :
        /\ DOMAIN a.f[s] = Microbatches(cfg) /\ DOMAIN a.b[s] = Microbatches(cfg)
        /\ \A mb \in Microbatches(cfg) : a.f[s][mb] \in Nat /\ a.b[s][mb] \in Nat

\* C5: with positive durations and a capacity for every stage, the
\* constraints are satisfiable exactly when every stage capacity is >= 1:
\* then the check never answers unsat, and on sat the run prints SAT with an
\* offset for each of the 2*P*M blocks; when some capacity is below 1 the
\* check never answers sat and the run prints UNSAT and hands over no
\* schedule.  The constraints of main()'s config (P=4, M=6, Cap=[4,3,2,1])
\* are satisfied by its back-to-back schedule.
C5_SatIffCapacitiesPositive ==
    /\ MainConfigSatisfiable
    /\ (/\ pc \in {"checked", "sat", "drawn", "done"}
        /\ PositiveDurations(config)
        /\ Stages(config) \subseteq DOMAIN Cap(config)) =>
            IF AllCapacitiesPositive(config)
                THEN /\ solver # {}
                     /\ check_result # "unsat"
                     /\ check_result = "sat" => z3model # {}
                     /\ (check_result = "sat" /\ pc # "checked") =>
                            /\ printed = "Result: SAT"
                            /\ results # {}
                            /\ \A a \in results : Complete(config, a)
                ELSE /\ solver = {}
                     /\ check_result # "sat"
                     /\ results = {}
                     /\ pc = "done" => printed = "Result: UNSAT"

\* the strict P=2, M=2, Cap=[1,1], Df=Db=1 run reports SAT with its 8 offsets
C5_Witness ==
    /\ pc = "sat"
    /\ printed = "Result: SAT"
    /\ config.pp_size = 2 /\ config.num_microbatches = 2
    /\ config.sequential_order_constraint_strategy = "strict"
    /\ Df(config) = 1 /\ Db(config) = 1
    /\ Cap(config) = [s \in 0..1 |-> 1]
    /\ \E a \in results : Complete(config, a)

RaiseCapacity(cfg, s) == [cfg EXCEPT !.max_activation_times[s] = @ + 1]

RelaxStrategy(cfg) ==
    CASE cfg.sequential_order_constraint_strategy = "strict" ->
            {[cfg EXCEPT !.sequential_order_constraint_strategy =
                            "double_interleaving"]}
      [] cfg.sequential_order_constraint_strategy = "double_interleaving" ->
            {[cfg EXCEPT !.sequential_order_constraint_strategy =
                            "full_interleaving"]}
      [] OTHER -> {}

Relaxations(cfg) ==
    {RaiseCapacity(cfg, s) : s \in Stages(cfg)} \cup RelaxStrategy(cfg)

\* the makespan the run reports for the constraint set S of cfg
OptimalMakespan(cfg, S) ==
    (CHOOSE m \in OptimalModels(cfg, S) : TRUE).max_start_offset + Db(cfg)

\* C6: raising one stage's capacity by one, or relaxing the strategy one step
\* (strict -> double interleaving -> full interleaving), keeps every feasible
\* schedule feasible, so a feasible configuration stays feasible, and never
\* increases the optimal makespan.
C6_RelaxationMonotone ==
    pc = "constraints" =>
        \A relaxed \in Relaxations(config) :
            LET after == Models(relaxed) IN
            /\ solver \subseteq after
            /\ solver # {} =>
                /\ after # {}
                /\ OptimalMakespan(relaxed, after)
                        <= OptimalMakespan(config, solver)

\* a relaxation that admits new schedules and lowers the optimal makespan
C6_Witness ==
    /\ pc = "constraints"
    /\ solver # {}
    /\ \E relaxed \in Relaxations(config) :
        /\ ~(Models(relaxed) \subseteq solver)
        /\ OptimalMakespan(relaxed, Models(relaxed))
                < OptimalMakespan(config, solver)

\* C7 as claimed: a configuration with an invalid strategy, a non-integer or
\* non-positive duration, or a capacity list of the wrong length is rejected
\* before any offset variable exists and never reaches a check or an outcome.
C7_RejectedBeforeConstruction ==
    ~WellFormed(config) =>
        /\ ~offsets_created
        /\ check_result = "none"
        /\ printed = "none"

\* C8 as claimed: "Result: UNSAT" is printed only when the check answered
\* unsat.
C8_UnsatOnlyWhenUnsat ==
    printed = "Result: UNSAT" => check_result = "unsat"

BothBranches(cfg, a, mb) ==
    /\ down_case(cfg, Col(a.f, mb), Col(a.b, mb))
    /\ up_case(cfg, Col(a.f, mb), Col(a.b, mb))

SomeBranch(cfg, a, mb) ==
    \/ down_case(cfg, Col(a.f, mb), Col(a.b, mb))
    \/ up_case(cfg, Col(a.f, mb), Col(a.b, mb))

\* C9 as claimed: under double interleaving exactly one of the down and up
\* conjunctions holds for every microbatch of every feasible schedule, for
\* every P >= 1.
C9_ExactlyOneBranchAnyP ==
    (/\ pc = "constraints"
     /\ config.sequential_order_constraint_strategy = "double_interleaving") =>
        \A a \in solver :
            \A mb \in Microbatches(config) :
                SomeBranch(config, a, mb) /\ ~BothBranches(config, a, mb)

\* C9 amended: under double interleaving, for every microbatch of every
\* feasible schedule at least one of the two conjunctions holds; when P >= 2
\* and Df or Db is positive exactly one holds; when P = 1 the two are the
\* same constraint and both hold.
C9_ExactlyOneBranch ==
    (/\ pc = "constraints"
     /\ config.sequential_order_constraint_strategy = "double_interleaving") =>
        \A a \in solver :
            \A mb \in Microbatches(config) :
                /\ SomeBranch(config, a, mb)
                /\ (config.pp_size >= 2 /\ (Df(config) > 0 \/ Db(config) > 0))
                        => ~BothBranches(config, a, mb)
                /\ config.pp_size = 1 => BothBranches(config, a, mb)

\* a feasible schedule with one microbatch going down and another going up
C9_Witness ==
    /\ pc = "constraints"
    /\ config.sequential_order_constraint_strategy = "double_interleaving"
    /\ config.pp_size >= 2
    /\ \E a \in solver :
        \E m1, m2 \in Microbatches(config) :
            /\ down_case(config, Col(a.f, m1), Col(a.b, m1))
            /\ ~up_case(config, Col(a.f, m1), Col(a.b, m1))
            /\ up_case(config, Col(a.f, m2), Col(a.b, m2))
            /\ ~down_case(config, Col(a.f, m2), Col(a.b, m2))

\* C10: with positive durations, in every feasible schedule and at every
\* instant t, the microbatches whose forward has started and whose backward
\* has not started before t on a stage number at most the stage's capacity.
C10_PeakWithinCapacity ==
    (pc = "constraints" /\ PositiveDurations(config)) =>
        \A a \in solver :
            \A s \in Stages(config) :
                \A t \in Offsets(config) :
                    Cardinality(Live(config, a, s, t)) <= Cap(config)[s]

\* the capacity is reached at an instant where no backward block starts
C10_Witness ==
    /\ pc = "constraints"
    /\ PositiveDurations(config)
    /\ \E a \in solver :
        \E s \in Stages(config) :
            \E t \in Offsets(config) :
                /\ \A mb \in Microbatches(config) : a.b[s][mb] # t
                /\ Cardinality(Live(config, a, s, t)) = 2
                /\ Cap(config)[s] = 2

====
